---- MODULE Spec2Model ----
(***************************************************************************)
(* SHMatcher-NG: the per-cluster status Resolver                           *)
(* (bin/postprocess_single_linkage.py), the cross-cluster Aggregator       *)
(* (bin/aggregate_matches.py) and the best-hit parsers                     *)
(* (bin/parse_best_hits.py), as state machines over the files they read.   *)
(*                                                                         *)
(* A TSV file is a sequence of rows, a row the sequence of the fields that *)
(* csv.reader yields for one line, a field a string.  A Python dict is a   *)
(* TLA+ function whose DOMAIN is the key set; where the iteration order of *)
(* a dict decides something (clusters), it is a sequence of <<key, value>> *)
(* pairs in insertion order.                                               *)
(***************************************************************************)
EXTENDS Integers, Sequences, FiniteSets, TLC

(***************************************************************************)
(* Bounds of the model.                                                    *)
(***************************************************************************)
\* rows held by all the per-threshold cluster files of one directory together
MaxRows == 3

(***************************************************************************)
(* Strings.                                                                *)
(***************************************************************************)
\* the characters the model's strings use, in code-point order
Ascii == " .0123456789ABCDEFGHIJKLMNOPQRSTUVWXYZ_abcdefghijklmnopqrstuvwxyz"

Ord(c) == CHOOSE i \in 1..Len(Ascii) : SubSeq(Ascii, i, i) = c

\* Python's str < str: by code point, a proper prefix first
RECURSIVE StrLess(_, _)
StrLess(a, b) ==
    IF Len(b) = 0 THEN FALSE
    ELSE IF Len(a) = 0 THEN TRUE
    ELSE IF SubSeq(a, 1, 1) = SubSeq(b, 1, 1)
         THEN StrLess(SubSeq(a, 2, Len(a)), SubSeq(b, 2, Len(b)))
         ELSE Ord(SubSeq(a, 1, 1)) < Ord(SubSeq(b, 1, 1))

\* sorted(S) for a set of strings
RECURSIVE Sorted(_)
Sorted(S) ==
    IF S = {} THEN <<>>
    ELSE LET m == CHOOSE x \in S : \A y \in S \ {x} : StrLess(x, y)
         IN  <<m>> \o Sorted(S \ {m})

\* s.startswith(p)
StartsWith(s, p) == Len(s) >= Len(p) /\ SubSeq(s, 1, Len(p)) = p

\* s.endswith(p)
EndsWith(s, p) == Len(s) >= Len(p) /\ SubSeq(s, Len(s) - Len(p) + 1, Len(s)) = p

\* s.find(p, from) with 1-based positions: the first place >= from where p
\* occurs in s, 0 when there is none
Find(s, p, from) ==
    LET hits == {i \in from..(Len(s) - Len(p) + 1) : SubSeq(s, i, i + Len(p) - 1) = p}
    IN  IF hits = {} THEN 0 ELSE CHOOSE i \in hits : \A j \in hits : i <= j

\* the last place where p occurs in s, 0 when there is none
FindLast(s, p) ==
    LET hits == {i \in 1..(Len(s) - Len(p) + 1) : SubSeq(s, i, i + Len(p) - 1) = p}
    IN  IF hits = {} THEN 0 ELSE CHOOSE i \in hits : \A j \in hits : i >= j

\* sep.join(seq)
RECURSIVE Join(_, _)
Join(sep, seq) ==
    IF Len(seq) = 0 THEN ""
    ELSE IF Len(seq) = 1 THEN seq[1]
    ELSE seq[1] \o sep \o Join(sep, Tail(seq))

\* dict.get(k, d)
Get(m, k, d) == IF k \in DOMAIN m THEN m[k] ELSE d

\* the empty dict
EmptyMap == [k \in {} |-> ""]

\* d.setdefault(k, v): the first value of a key stays
PutIfAbsent(m, k, v) == [x \in DOMAIN m \cup {k} |-> IF x \in DOMAIN m THEN m[x] ELSE v]

\* d[k] = v
Put(m, k, v) == [x \in DOMAIN m \cup {k} |-> IF x = k THEN v ELSE m[x]]

(***************************************************************************)
(* Resolver: constants and loaders.                                        *)
(***************************************************************************)
THRESHOLDS == <<"0.030", "0.025", "0.020", "0.015", "0.010", "0.005">>

\* codes given in the order of the thresholds, largest first
th_to_code_in_order ==
    [t \in {"03", "0.030", "02", "0.020", "01", "0.010",
            "025", "0.025", "015", "0.015", "005", "0.005"} |->
        CASE t \in {"03", "0.030"}  -> "1"
          [] t \in {"025", "0.025"} -> "2"
          [] t \in {"02", "0.020"}  -> "3"
          [] t \in {"015", "0.015"} -> "4"
          [] t \in {"01", "0.010"}  -> "5"
          [] t \in {"005", "0.005"} -> "6"]

th_to_code ==
    [t \in {"03", "0.030", "02", "0.020", "01", "0.010",
            "025", "0.025", "015", "0.015", "005", "0.005"} |->
        CASE t \in {"03", "0.030"}  -> "1"
          [] t \in {"02", "0.020"}  -> "2"
          [] t \in {"01", "0.010"}  -> "3"
          [] t \in {"025", "0.025"} -> "4"
          [] t \in {"015", "0.015"} -> "5"
          [] t \in {"005", "0.005"} -> "6"]

\* Path(name).stem: the name without its last suffix
Stem(name) ==
    LET i == FindLast(name, ".")
    IN  IF i > 1 /\ i < Len(name) THEN SubSeq(name, 1, i - 1) ELSE name

\* re.search(r"mx_cluster_(.+?)_out_", stem): <<TRUE, group 1>> or <<FALSE, "">>
ParseClusterId(stem) ==
    LET i == Find(stem, "mx_cluster_", 1)
        j == IF i = 0 THEN 0 ELSE Find(stem, "_out_", i + 12)
    IN  IF i = 0 \/ j = 0 THEN <<FALSE, "">>
        ELSE <<TRUE, SubSeq(stem, i + 11, j - 1)>>

\* str.lower().startswith(c) for a lower-case letter c and its capital C
StartsWithLower(s, c, C) == StartsWith(s, c) \/ StartsWith(s, C)

\* load_cluster_members: <<query_ids, ref_ids>> of the rows of `cluster_id`
RECURSIVE load_cluster_members(_, _)
load_cluster_members(rows, cluster_id) ==
    IF Len(rows) = 0 THEN <<{}, {}>>
    ELSE LET row  == rows[Len(rows)]
             rest == load_cluster_members(SubSeq(rows, 1, Len(rows) - 1), cluster_id)
         IN  IF Len(row) < 3 THEN rest
             ELSE IF row[1] # cluster_id THEN rest
             ELSE IF StartsWithLower(row[2], "q", "Q") THEN <<rest[1] \cup {row[3]}, rest[2]>>
             ELSE IF StartsWithLower(row[2], "r", "R") THEN <<rest[1], rest[2] \cup {row[3]}>>
             ELSE rest

\* clusters.setdefault(key, []).append(sid) on a dict kept as a sequence of
\* <<key, members>> pairs in insertion order
DictAppend(d, key, sid) ==
    IF \E i \in 1..Len(d) : d[i][1] = key
    THEN [i \in 1..Len(d) |-> IF d[i][1] = key THEN <<key, Append(d[i][2], sid)>> ELSE d[i]]
    ELSE Append(d, <<key, <<sid>>>>)

\* clusters[key] = members on the same representation
DictSet(d, key, members) ==
    IF \E i \in 1..Len(d) : d[i][1] = key
    THEN [i \in 1..Len(d) |-> IF d[i][1] = key THEN <<key, members>> ELSE d[i]]
    ELSE Append(d, <<key, members>>)

\* load_clusters: [err |-> an IndexError was raised, d |-> the clusters read]
RECURSIVE load_clusters(_)
load_clusters(rows) ==
    IF Len(rows) = 0 THEN [err |-> FALSE, d |-> <<>>]
    ELSE LET row  == rows[Len(rows)]
             rest == load_clusters(SubSeq(rows, 1, Len(rows) - 1))
         IN  IF rest.err THEN rest
             ELSE IF Len(row) = 0 THEN rest
             ELSE IF Len(row) < 2 THEN [err |-> TRUE, d |-> rest.d]
             ELSE [err |-> FALSE, d |-> DictAppend(rest.d, row[1], row[2])]

\* invert_membership(clusters).get(s): the place, in the dict's order, of the
\* last cluster that lists s; 0 stands for None
membership_get(clusters, s) ==
    LET hits == {i \in 1..Len(clusters) :
                    \E k \in 1..Len(clusters[i][2]) : clusters[i][2][k] = s}
    IN  IF hits = {} THEN 0 ELSE CHOOSE i \in hits : \A j \in hits : i >= j

(***************************************************************************)
(* Best-hit tables.                                                        *)
(***************************************************************************)
\* float(s) for the score strings of the model: the value, in units that keep
\* the order; a string outside the table raises ValueError
FloatVal == ("0" :> 0) @@ ("1" :> 1) @@ ("1.0" :> 1) @@ ("2" :> 2) @@ ("2.0" :> 2)

IsFloat(s) == s \in DOMAIN FloatVal

Upper == "ABCDEFGHIJKLMNOPQRSTUVWXYZ"
Lower == "abcdefghijklmnopqrstuvwxyz"

\* str.lower()
RECURSIVE ToLower(_)
ToLower(s) ==
    IF Len(s) = 0 THEN ""
    ELSE LET c == SubSeq(s, 1, 1)
             i == Find(Upper, c, 1)
         IN  (IF i = 0 THEN c ELSE SubSeq(Lower, i, i)) \o ToLower(SubSeq(s, 2, Len(s)))

\* str.strip(), for the blank as the only white space
RECURSIVE Strip(_)
Strip(s) ==
    IF Len(s) = 0 THEN s
    ELSE IF SubSeq(s, 1, 1) = " " THEN Strip(SubSeq(s, 2, Len(s)))
    ELSE IF SubSeq(s, Len(s), Len(s)) = " " THEN Strip(SubSeq(s, 1, Len(s) - 1))
    ELSE s

\* [c.strip().lower() for c in first]
Columns(first) == [i \in 1..Len(first) |-> ToLower(Strip(first[i]))]

HasHeader(columns) ==
    /\ \E i \in 1..Len(columns) : columns[i] = "query"
    /\ \E i \in 1..Len(columns) : columns[i] = "target"

\* the default MMseqs convertalis order, as 1-based places
DefaultColIdx ==
    ("query" :> 1) @@ ("target" :> 2) @@ ("evalue" :> 3) @@ ("bits" :> 4) @@
    ("alnlen" :> 5) @@ ("pident" :> 6) @@ ("qcov" :> 7) @@ ("tcov" :> 8)

\* {name: i for i, name in enumerate(columns)}: a repeated name keeps its last place
HeaderColIdx(columns) ==
    [name \in {columns[i] : i \in 1..Len(columns)} |->
        CHOOSE i \in 1..Len(columns) :
            /\ columns[i] = name
            /\ \A j \in 1..Len(columns) : columns[j] = name => j <= i]

\* key <= prev[0]: the later of two tied rows would be kept
KeyLessOrEqual(a, b) ==
    \/ a[1] < b[1]
    \/ a[1] = b[1] /\ a[2] < b[2]
    \/ a[1] = b[1] /\ a[2] = b[2] /\ a[3] <= b[3]

\* key < prev[0] for the tuples (evalue, -bits, -pident)
KeyLess(a, b) ==
    \/ a[1] < b[1]
    \/ a[1] = b[1] /\ a[2] < b[2]
    \/ a[1] = b[1] /\ a[2] = b[2] /\ a[3] < b[3]

\* the try block of one row: TRUE when no IndexError and no ValueError is raised
RowParses(row, col_idx) ==
    LET e == Get(col_idx, "evalue", 3)
        b == Get(col_idx, "bits", 4)
        p == Get(col_idx, "pident", 6)
    IN  /\ col_idx["query"] <= Len(row)
        /\ col_idx["target"] <= Len(row)
        /\ e <= Len(row) /\ IsFloat(row[e])
        /\ b <= Len(row) /\ IsFloat(row[b])
        /\ p <= Len(row) /\ IsFloat(row[p])

\* the loop over the data rows: best[qid] = (key, tid, pident); with `strict`
\* (parse_best_hits_mmseqs) a row of another length than 8 is passed over
RECURSIVE BestLoop(_, _, _)
BestLoop(rows, col_idx, strict) ==
    IF Len(rows) = 0 THEN EmptyMap
    ELSE LET row  == rows[Len(rows)]
             best == BestLoop(SubSeq(rows, 1, Len(rows) - 1), col_idx, strict)
         IN  IF strict /\ Len(row) # 8 THEN best
             ELSE IF ~RowParses(row, col_idx) THEN best
             ELSE LET qid    == row[col_idx["query"]]
                      tid    == row[col_idx["target"]]
                      evalue == FloatVal[row[Get(col_idx, "evalue", 3)]]
                      bits   == FloatVal[row[Get(col_idx, "bits", 4)]]
                      pident == FloatVal[row[Get(col_idx, "pident", 6)]]
                      key    == <<evalue, 0 - bits, 0 - pident>>
                  IN  IF qid \notin DOMAIN best \/ KeyLess(key, best[qid][1])
                      THEN Put(best, qid, <<key, tid, pident>>)
                      ELSE best

\* rows_iter + list(reader)
DataRows(rows, has_header) ==
    IF ~has_header /\ Len(rows[1]) > 0 THEN rows ELSE Tail(rows)

\* the parse_best_hits of the Resolver and of the Aggregator (the same code):
\* [err, q2best_ref, q2pident]
parse_best_hits(rows) ==
    IF Len(rows) = 0
    THEN [err |-> FALSE, q2best_ref |-> EmptyMap, q2pident |-> EmptyMap]
    ELSE LET columns    == Columns(rows[1])
             has_header == HasHeader(columns)
             col_idx    == IF has_header THEN HeaderColIdx(columns) ELSE DefaultColIdx
             best       == BestLoop(DataRows(rows, has_header), col_idx, FALSE)
         IN  [err        |-> FALSE,
              q2best_ref |-> [q \in DOMAIN best |-> best[q][2]],
              q2pident   |-> [q \in DOMAIN best |-> best[q][3]]]

\* parse_best_hits_mmseqs of the shared module: a first row of another length
\* than 8 raises ValueError
parse_best_hits_mmseqs(rows) ==
    IF Len(rows) = 0
    THEN [err |-> FALSE, q2best_ref |-> EmptyMap, q2pident |-> EmptyMap]
    ELSE LET columns    == Columns(rows[1])
             has_header == HasHeader(columns)
             col_idx    == IF has_header THEN HeaderColIdx(columns) ELSE DefaultColIdx
             best       == BestLoop(DataRows(rows, has_header), col_idx, TRUE)
         IN  IF Len(rows[1]) # 8
             THEN [err |-> TRUE, q2best_ref |-> EmptyMap, q2pident |-> EmptyMap]
             ELSE [err        |-> FALSE,
                   q2best_ref |-> [q \in DOMAIN best |-> best[q][2]],
                   q2pident   |-> [q \in DOMAIN best |-> best[q][3]]]

\* the centroid2sh loop: map_by_th[th_code][ref_id] = sh_code
RECURSIVE load_centroid2sh(_)
load_centroid2sh(rows) ==
    IF Len(rows) = 0 THEN [c \in {"1", "2", "3", "4", "5", "6"} |-> EmptyMap]
    ELSE LET row  == rows[Len(rows)]
             rest == load_centroid2sh(SubSeq(rows, 1, Len(rows) - 1))
         IN  IF Len(row) < 3 THEN rest
             ELSE IF row[2] \in DOMAIN rest
                  THEN [rest EXCEPT ![row[2]] = Put(rest[row[2]], row[3], row[1])]
                  ELSE rest

(***************************************************************************)
(* Resolver: the decision for one query at one threshold.                  *)
(***************************************************************************)
\* set(members)
MemberSet(members) == {members[k] : k \in 1..Len(members)}

\* line 224: has_best_ref
has_best_ref_of(best_ref, ref_in_cluster) ==
    IF best_ref # "" THEN best_ref \in ref_in_cluster ELSE FALSE

\* mutant of best_sh_of: the SH is looked up in the sub-table of code 1 at
\* every threshold
best_sh_first_code(maps, th_code, best_ref) ==
    IF best_ref # "" THEN Get(maps["1"], best_ref, "") ELSE ""

\* line 225: best_sh, the SH of the best hit in the sub-table of th_code
best_sh_of(maps, th_code, best_ref) ==
    IF best_ref # "" THEN Get(maps[th_code], best_ref, "") ELSE ""

\* one member that is a query is enough
only_q_any(members, qids) == \E k \in 1..Len(members) : members[k] \in qids

\* line 235: only_q
only_q_of(members, qids) == \A k \in 1..Len(members) : members[k] \in qids

\* mutant of is_singleton: the distinct members are counted
is_singleton_distinct(members) == Cardinality(MemberSet(members)) = 1

\* line 237: the cluster is a singleton
is_singleton(members) == Len(members) = 1

\* mutant of extra_of: the members are listed in sorted order
extra_of_sorted(members) == Join(" ", Sorted(MemberSet(members)))

\* line 244: extra of a new cluster
extra_of(members) == Join(" ", members)

\* lines 262-263: the SH of the first reference of the cluster in sorted order
pick_sh(maps, th_code, ref_in_cluster) ==
    LET pick == Sorted(ref_in_cluster)[1]
    IN  Get(maps[th_code], pick, "")

\* the body of `for q in sorted(query_ids)`: the row written for q at th, from
\* the clusters of th
StatusRecord(q, th, cl, qids, rids, best, maps) ==
    LET th_code  == th_to_code[th]
        best_ref == Get(best, q, "")
        cid      == membership_get(cl, q)
    IN  IF cid = 0 THEN <<q, best_ref, "missing", "", "", th>>
        ELSE
        LET members        == cl[cid][2]
            ref_in_cluster == MemberSet(members) \cap rids
            has_best_ref   == has_best_ref_of(best_ref, ref_in_cluster)
            best_sh        == best_sh_of(maps, th_code, best_ref)
        IN  IF has_best_ref
            THEN <<q, best_ref, "present", best_sh, "", th>>
            ELSE IF ref_in_cluster = {}
            THEN IF only_q_of(members, qids)
                 THEN IF is_singleton(members)
                      THEN <<q, best_ref, "singleton", best_sh, "", th>>
                      ELSE <<q, best_ref, "new cluster", best_sh, extra_of(members), th>>
                 ELSE IF /\ best_ref # ""
                         /\ best_ref \in DOMAIN maps[th_code]
                         /\ \E r \in ref_in_cluster :
                               /\ r \in DOMAIN maps[th_code]
                               /\ maps[th_code][r] = maps[th_code][best_ref]
                      THEN <<q, best_ref, "present", maps[th_code][best_ref], "", th>>
                      ELSE <<q, best_ref, "missing", "", "", th>>
            ELSE <<q, best_ref, "present", pick_sh(maps, th_code, ref_in_cluster), "", th>>

\* the rows written for one threshold, in the order of sorted(query_ids)
ThresholdRecords(th, cl, qids, rids, best, maps) ==
    LET qs == Sorted(qids)
    IN  [i \in 1..Len(qs) |-> StatusRecord(qs[i], th, cl, qids, rids, best, maps)]

\* the loop over the files of one threshold: [err, d] with d the dict of the
\* clusters of all the files read, keyed by f"{f.stem}_{cid}"
RECURSIVE LoadThreshold(_, _)
LoadThreshold(files, dir) ==
    IF Len(files) = 0 THEN [err |-> FALSE, d |-> <<>>]
    ELSE LET f    == files[Len(files)]
             rest == LoadThreshold(SubSeq(files, 1, Len(files) - 1), dir)
             part == load_clusters(dir[f])
             add[i \in 0..Len(part.d)] ==
                 IF i = 0 THEN rest.d
                 ELSE DictSet(add[i - 1], Stem(f) \o "_" \o part.d[i][1], part.d[i][2])
         IN  IF rest.err THEN rest
             ELSE IF part.err THEN [err |-> TRUE, d |-> rest.d]
             ELSE [err |-> FALSE, d |-> add[Len(part.d)]]

(***************************************************************************)
(* The files the Resolver is run on.                                       *)
(***************************************************************************)
\* names a clusters directory may hold
DirNames == {"cl_A_out_0.030", "mx_cluster_A_out_0.030", "mx_cluster_A_out_0.015"}

\* member ids the cluster files may name
Sids == {"q1", "q2", "r1", "r2", "r3"}

\* rows of a cluster file: (raw cluster id, member id), or a line of one field
ClusterRows == {<<"0", s>> : s \in Sids} \cup {<<"0">>}

RowSeqs(n) == UNION {[1..k -> ClusterRows] : k \in 0..n}

\* the directories over `names` whose well-named files hold at most n rows
\* together (a file that is no cluster file of the run is left empty):
\* file name -> rows
RECURSIVE Dirs(_, _)
Dirs(names, n) ==
    IF names = {} THEN {EmptyMap}
    ELSE LET f == CHOOSE x \in names : TRUE
         IN  IF ~ParseClusterId(Stem(f))[1]
             THEN {Put(d, f, <<>>) : d \in Dirs(names \ {f}, n)}
             ELSE UNION {{Put(d, f, rows) : d \in Dirs(names \ {f}, n - Len(rows))} :
                            rows \in RowSeqs(n)}

\* the cluster membership table of the run (all compound clusters)
MembershipRows ==
    << <<"A", "Query", "q1">>, <<"A", "query", "q2">>, <<"A", "Ref", "r1">>,
       <<"A", "ref", "r2">>, <<"A", "Ref">>, <<"B", "Query", "q3">>,
       <<"B", "Ref", "r3">>, <<"A", "other", "x1">> >>

\* centroid2sh_mappings.txt: (SH code, threshold code, reference id)
Centroid2shRows ==
    << <<"SH2", "1", "r1">>, <<"SH1", "1", "r2">>, <<"SH1", "1", "r3">>,
       <<"SH1", "1">>, <<"SH3", "5", "r1">>, <<"SH4", "7", "r2">> >>

\* best-hit tables: query, target, evalue, bits, alnlen, pident, qcov, tcov
HitTables ==
    { << <<"q1", "r1", "1", "2", "0", "2", "0", "0">> >>,
      << <<"q1", "r1", "1", "2", "0", "2", "0", "0">>,
         <<"q1", "r3", "0", "2", "0", "2", "0", "0">>,
         <<"q2", "r2", "0", "x", "0", "2", "0", "0">> >> }

(***************************************************************************)
(* Aggregator: constants, loaders and the decision for one threshold.      *)
(***************************************************************************)
\* THRESHOLDS of aggregate_matches.py, and the order of the scan of line 221
AGG_THRESHOLDS == <<"03", "025", "02", "015", "01", "005">>

TH_ALIAS ==
    ("03" :> "0.030") @@ ("025" :> "0.025") @@ ("02" :> "0.020") @@
    ("015" :> "0.015") @@ ("01" :> "0.010") @@ ("005" :> "0.005")

\* lines 97-101: a decimal threshold becomes its legacy key
NormalizeTh(th) ==
    IF \E k \in DOMAIN TH_ALIAS : TH_ALIAS[k] = th
    THEN CHOOSE k \in DOMAIN TH_ALIAS : TH_ALIAS[k] = th
    ELSE th

\* the rows after the first line of every file, in reading order
RECURSIVE MatchRows(_)
MatchRows(files) ==
    IF Len(files) = 0 THEN <<>>
    ELSE IF Len(Head(files)) = 0 THEN MatchRows(Tail(files))
    ELSE Tail(Head(files)) \o MatchRows(Tail(files))

\* the loop of read_matches_aggregated over those rows:
\* [err |-> a KeyError was raised, per_th, queries |-> all_queries]
RECURSIVE MatchLoop(_)
MatchLoop(rows) ==
    IF Len(rows) = 0
    THEN [err     |-> FALSE,
          per_th  |-> [th \in {AGG_THRESHOLDS[i] : i \in 1..Len(AGG_THRESHOLDS)} |-> EmptyMap],
          queries |-> {}]
    ELSE LET row  == rows[Len(rows)]
             rest == MatchLoop(SubSeq(rows, 1, Len(rows) - 1))
             th   == NormalizeTh(row[6])
         IN  IF rest.err THEN rest
             ELSE IF Len(row) < 6 THEN rest
             ELSE IF th \notin DOMAIN rest.per_th
                  THEN [rest EXCEPT !.err = TRUE, !.queries = @ \cup {row[1]}]
                  ELSE [err     |-> FALSE,
                        per_th  |-> [rest.per_th EXCEPT ![th] = Put(@, row[1], row)],
                        queries |-> rest.queries \cup {row[1]}]

\* read_matches_aggregated: [err, per_th, all_queries]
read_matches_aggregated(files) ==
    LET r == MatchLoop(MatchRows(files))
    IN  [err |-> r.err, per_th |-> r.per_th, all_queries |-> Sorted(r.queries)]

\* load_map_file, key_idx and val_idx as 1-based places
RECURSIVE load_map_file(_, _, _)
load_map_file(rows, key_idx, val_idx) ==
    IF Len(rows) = 0 THEN EmptyMap
    ELSE LET row  == rows[Len(rows)]
             rest == load_map_file(SubSeq(rows, 1, Len(rows) - 1), key_idx, val_idx)
             max  == IF key_idx > val_idx THEN key_idx ELSE val_idx
         IN  IF Len(row) < max THEN rest
             ELSE Put(rest, row[key_idx], row[val_idx])

\* lines 189-194: ucl2tax from compounds_out.txt
RECURSIVE load_compounds(_)
load_compounds(rows) ==
    IF Len(rows) = 0 THEN EmptyMap
    ELSE LET row  == rows[Len(rows)]
             rest == load_compounds(SubSeq(rows, 1, Len(rows) - 1))
         IN  IF Len(row) >= 3 THEN Put(rest, row[2], row[3]) ELSE rest

\* the parse_best_hits of the Aggregator, lines 140-172: the text of the
\* Resolver's
agg_parse_best_hits(rows) == parse_best_hits(rows)

\* the part after the last underscore, when it starts with "SH"
extract_after_last_underscore(target_id) ==
    LET i == FindLast(target_id, "_")
    IN  IF i # 0 /\ StartsWith(SubSeq(target_id, i + 1, Len(target_id)), "SH")
        THEN SubSeq(target_id, i + 1, Len(target_id))
        ELSE ""

\* extract_sh_code_from_target
extract_sh_code_from_target(target_id) ==
    LET i == Find(target_id, "_", 1)
    IN  IF target_id = "" THEN ""
        ELSE IF i # 0 /\ StartsWith(SubSeq(target_id, i + 1, Len(target_id)), "SH")
        THEN SubSeq(target_id, i + 1, Len(target_id))
        ELSE ""

\* lines 233-236: the SH code of a "present" record
present_sh_code(sh_maybe, best_ref) ==
    IF sh_maybe # "" /\ StartsWith(sh_maybe, "SH")
    THEN sh_maybe
    ELSE extract_sh_code_from_target(best_ref)

\* the compound code always looked up, a "UCL" field too
resolve_ucl_by_lookup(sh_maybe, s2u) == Get(s2u, sh_maybe, "")

\* lines 246-249 and 257-260: the compound code of a "new cluster" or
\* "singleton" record
resolve_ucl(sh_maybe, s2u) ==
    IF StartsWith(sh_maybe, "UCL") THEN sh_maybe ELSE Get(s2u, sh_maybe, "")

\* a guard that lets every threshold with a compound set the columns
may_set_always(cur_ucl, ucl) == ucl # ""

\* lines 251 and 262: the guard of the compound columns
may_set_compound(cur_ucl, ucl) == cur_ucl = "" /\ ucl # ""

\* lines 222-265: one pass of the scan, for the record m of the threshold
\* (<<>> when there is none): the three columns and the compound columns after it
ScanStep(m, cur_ucl, cur_tax, s2t, s2u, u2t) ==
    LET none == [status |-> "", sh_code |-> "", tax |-> "",
                 compound_ucl |-> cur_ucl, compound_tax |-> cur_tax]
    IN  IF Len(m) = 0 THEN none
        ELSE
        LET status_raw == m[3]
            best_ref   == m[2]
            sh_maybe   == m[4]
        IN  IF status_raw = "present"
            THEN LET sh_code == present_sh_code(sh_maybe, best_ref)
                     set     == cur_ucl = "" /\ sh_code # "" /\ sh_code \in DOMAIN s2u
                 IN  [status  |-> "present_in",
                      sh_code |-> sh_code,
                      tax     |-> Get(s2t, sh_code, ""),
                      compound_ucl |-> IF set THEN s2u[sh_code] ELSE cur_ucl,
                      compound_tax |-> IF set THEN Get(u2t, s2u[sh_code], "") ELSE cur_tax]
            ELSE IF status_raw \in {"new cluster", "singleton"}
            THEN LET ucl == resolve_ucl(sh_maybe, s2u)
                     tax == IF sh_maybe # "" THEN Get(u2t, ucl, "") ELSE ""
                     set == sh_maybe # "" /\ may_set_compound(cur_ucl, ucl)
                 IN  [status  |-> IF status_raw = "new cluster" THEN "new_sh_in"
                                  ELSE "new_singleton_in",
                      sh_code |-> "",
                      tax     |-> tax,
                      compound_ucl |-> IF set THEN ucl ELSE cur_ucl,
                      compound_tax |-> IF set THEN tax ELSE cur_tax]
            ELSE none

\* an extension that leaves out the columns of a threshold without status
extend_if_any(row, st) ==
    IF st.status = "" THEN row ELSE row \o <<st.status, st.sh_code, st.tax>>

\* line 265: row_out.extend([status, sh_code, tax])
extend_row(row, st) == row \o <<st.status, st.sh_code, st.tax>>

\* line 274: the line written for a row, without its newline
OutLine(row) == Join("\t", row)

\* lines 198-209: the header of the output
AggHeader ==
    <<"seq_id_tmp", "seq_accno",
      "status (3.0)", "SH code (3.0)", "SH/compound taxonomy (3.0)",
      "status (2.5)", "SH code (2.5)", "SH/compound taxonomy (2.5)",
      "status (2.0)", "SH code (2.0)", "SH/compound taxonomy (2.0)",
      "status (1.5)", "SH code (1.5)", "SH/compound taxonomy (1.5)",
      "status (1.0)", "SH code (1.0)", "SH/compound taxonomy (1.0)",
      "status (0.5)", "SH code (0.5)", "SH/compound taxonomy (0.5)",
      "compound_cl_code (0.5)", "Compound taxonomy (0.5)",
      "Matched sequence", "Similarity percentage">>

\* str(pident) of line 274, for the values of FloatVal
FloatStr == (0 :> "0.0") @@ (1 :> "1.0") @@ (2 :> "2.0")

(***************************************************************************)
(* State.  The three programs are run apart: a specification runs one of    *)
(* them and leaves the variables of the others idle.                       *)
(***************************************************************************)
VARIABLES
    \* the Resolver
    clusters_dir,   \* args.clusters_dir: file name -> rows
    best_hits_tsv,  \* args.best_hits: rows
    pc,             \* "start", "load", "loop", "done", "fatal", "error"
    out_parent,     \* out_path.parent exists
    out_exists,     \* the output file exists
    out_rows,       \* the rows written to the output file
    cluster_id, query_ids, ref_ids, q2best, map_by_th,
    th_i,           \* place in THRESHOLDS of the next threshold
    clusters,       \* the clusters of the threshold read last
    \* a loader applied to a table
    l_kind,         \* the kind of table
    l_rows,         \* its rows
    l_pc,           \* "in", then the loader that was applied
    l_res,          \* what the loader returned
    \* the Aggregator
    agg_files,      \* the matches files in reading order, each its lines
    apc,            \* "start", "query", "scan", "done", "error"
    per_th, all_queries, agg_q2best, agg_q2pident, sh2tax, sh2ucl, ucl2tax,
    out_lines,      \* the lines written to args.out, the header first
    q_i,            \* place in all_queries of the query of the pass
    t_i,            \* place in the threshold list of the next threshold
    row_out, compound_ucl, compound_tax

rvars == <<clusters_dir, best_hits_tsv, pc, out_parent, out_exists, out_rows,
           cluster_id, query_ids, ref_ids, q2best, map_by_th, th_i, clusters>>

lvars == <<l_kind, l_rows, l_pc, l_res>>

avars == <<agg_files, apc, per_th, all_queries, agg_q2best, agg_q2pident, sh2tax,
           sh2ucl, ucl2tax, out_lines, q_i, t_i, row_out, compound_ucl, compound_tax>>

vars == <<rvars, lvars, avars>>

\* the Resolver is not run
RIdle ==
    /\ clusters_dir = EmptyMap
    /\ best_hits_tsv = <<>>
    /\ pc = "idle"
    /\ out_parent = FALSE
    /\ out_exists = FALSE
    /\ out_rows = <<>>
    /\ cluster_id = ""
    /\ query_ids = {}
    /\ ref_ids = {}
    /\ q2best = EmptyMap
    /\ map_by_th = EmptyMap
    /\ th_i = 1
    /\ clusters = <<>>

\* no loader is run
LIdle ==
    /\ l_kind = ""
    /\ l_rows = <<>>
    /\ l_pc = "idle"
    /\ l_res = <<>>

\* the Aggregator is not run
AIdle ==
    /\ agg_files = <<>>
    /\ apc = "idle"
    /\ per_th = EmptyMap
    /\ all_queries = <<>>
    /\ agg_q2best = EmptyMap
    /\ agg_q2pident = EmptyMap
    /\ sh2tax = EmptyMap
    /\ sh2ucl = EmptyMap
    /\ ucl2tax = EmptyMap
    /\ out_lines = <<>>
    /\ q_i = 1
    /\ t_i = 1
    /\ row_out = <<>>
    /\ compound_ucl = ""
    /\ compound_tax = ""

RInit ==
    /\ clusters_dir \in UNION {Dirs(names, MaxRows) : names \in SUBSET DirNames}
    /\ best_hits_tsv \in HitTables
    /\ pc = "start"
    /\ out_parent = FALSE
    /\ out_exists = FALSE
    /\ out_rows = <<>>
    /\ cluster_id = ""
    /\ query_ids = {}
    /\ ref_ids = {}
    /\ q2best = EmptyMap
    /\ map_by_th = EmptyMap
    /\ th_i = 1
    /\ clusters = <<>>
    /\ LIdle
    /\ AIdle

(***************************************************************************)
(* Resolver: the run.                                                      *)
(***************************************************************************)
\* sorted(Path(dir).glob("*_out_*"))
GlobOut(dir) == Sorted({n \in DOMAIN dir : Find(n, "_out_", 1) # 0})

\* sorted(Path(dir).glob(f"*_out_{th}"))
GlobThreshold(dir, th) == Sorted({n \in DOMAIN dir : EndsWith(n, "_out_" \o th)})

\* mutant of Start: the output file is opened, and its header written, before
\* the cluster id is looked for
StartOpensOutput ==
    /\ pc = "start"
    /\ out_parent' = TRUE
    /\ out_exists' = TRUE
    /\ out_rows' = << <<"query", "best_ref", "status", "sh_code", "extra", "threshold">> >>
    /\ LET files == GlobOut(clusters_dir)
           m     == IF Len(files) = 0 THEN <<FALSE, "">> ELSE ParseClusterId(Stem(files[1]))
       IN  IF m[1]
           THEN pc' = "load" /\ cluster_id' = m[2]
           ELSE pc' = "fatal" /\ UNCHANGED cluster_id
    /\ UNCHANGED <<clusters_dir, best_hits_tsv, query_ids,
                   ref_ids, q2best, map_by_th, th_i, clusters>>
    /\ UNCHANGED <<lvars, avars>>

\* lines 107-120: make the output's directory, find the cluster id or raise
Start ==
    /\ pc = "start"
    /\ out_parent' = TRUE
    /\ LET files == GlobOut(clusters_dir)
           m     == IF Len(files) = 0 THEN <<FALSE, "">> ELSE ParseClusterId(Stem(files[1]))
       IN  IF m[1]
           THEN pc' = "load" /\ cluster_id' = m[2]
           ELSE pc' = "fatal" /\ UNCHANGED cluster_id
    /\ UNCHANGED <<clusters_dir, best_hits_tsv, out_exists, out_rows, query_ids,
                   ref_ids, q2best, map_by_th, th_i, clusters>>
    /\ UNCHANGED <<lvars, avars>>

\* lines 122-194: load the tables, open the output file and write its header
LoadTables ==
    /\ pc = "load"
    /\ LET qr == load_cluster_members(MembershipRows, cluster_id)
       IN  query_ids' = qr[1] /\ ref_ids' = qr[2]
    /\ q2best' = parse_best_hits(best_hits_tsv).q2best_ref
    /\ map_by_th' = load_centroid2sh(Centroid2shRows)
    /\ out_exists' = TRUE
    /\ out_rows' = << <<"query", "best_ref", "status", "sh_code", "extra", "threshold">> >>
    /\ pc' = "loop"
    /\ UNCHANGED <<clusters_dir, best_hits_tsv, out_parent, cluster_id, th_i, clusters>>
    /\ UNCHANGED <<lvars, avars>>

\* lines 196-265: one pass of `for th in THRESHOLDS`
ProcessThreshold ==
    /\ pc = "loop"
    /\ LET th     == THRESHOLDS[th_i]
           loaded == LoadThreshold(GlobThreshold(clusters_dir, th), clusters_dir)
       IN  IF loaded.err
           THEN /\ pc' = "error"
                /\ UNCHANGED <<out_rows, th_i, clusters>>
           ELSE /\ clusters' = loaded.d
                /\ out_rows' = out_rows \o
                       ThresholdRecords(th, loaded.d, query_ids, ref_ids, q2best, map_by_th)
                /\ th_i' = th_i + 1
                /\ pc' = IF th_i = Len(THRESHOLDS) THEN "done" ELSE "loop"
    /\ UNCHANGED <<clusters_dir, best_hits_tsv, out_parent, out_exists, cluster_id,
                   query_ids, ref_ids, q2best, map_by_th>>
    /\ UNCHANGED <<lvars, avars>>

RNext == Start \/ LoadTables \/ ProcessThreshold

SpecR == RInit /\ [][RNext]_vars

(***************************************************************************)
(* Resolver: what the claims speak of, read from the input files alone.    *)
(***************************************************************************)
\* the threshold whose records were written last
LastTh == THRESHOLDS[th_i - 1]

\* the rows of the cluster file of threshold t (of the one file there is)
T_Rows(t) ==
    LET fs == {n \in DOMAIN clusters_dir : EndsWith(n, "_out_" \o t)}
    IN  IF fs = {} THEN <<>> ELSE clusters_dir[CHOOSE n \in fs : TRUE]

\* the raw clusters of threshold t that list q
T_ClustersOf(q, t) ==
    {T_Rows(t)[i][1] : i \in {j \in 1..Len(T_Rows(t)) : T_Rows(t)[j][2] = q}}

\* the members of raw cluster c, in the order of the rows
RECURSIVE T_Members(_, _)
T_Members(rows, c) ==
    IF Len(rows) = 0 THEN <<>>
    ELSE IF Head(rows)[1] = c THEN <<Head(rows)[2]>> \o T_Members(Tail(rows), c)
    ELSE T_Members(Tail(rows), c)

\* the Query and the Ref members of compound cluster `cluster_id` in the
\* membership table
T_Queries ==
    {MembershipRows[i][3] : i \in {j \in 1..Len(MembershipRows) :
        /\ Len(MembershipRows[j]) = 3
        /\ MembershipRows[j][1] = cluster_id
        /\ MembershipRows[j][2] \in {"Query", "query"}}}

T_Refs ==
    {MembershipRows[i][3] : i \in {j \in 1..Len(MembershipRows) :
        /\ Len(MembershipRows[j]) = 3
        /\ MembershipRows[j][1] = cluster_id
        /\ MembershipRows[j][2] \in {"Ref", "ref"}}}

\* the threshold codes of the centroid->SH map
T_Code(t) ==
    CASE t = "0.030" -> "1" [] t = "0.020" -> "2" [] t = "0.010" -> "3"
      [] t = "0.025" -> "4" [] t = "0.015" -> "5" [] t = "0.005" -> "6"

\* the centroid->SH lookup of reference r at threshold t, "" when absent
T_Lookup(t, r) ==
    LET hits == {i \in 1..Len(Centroid2shRows) :
                    /\ Len(Centroid2shRows[i]) = 3
                    /\ Centroid2shRows[i][2] = T_Code(t)
                    /\ Centroid2shRows[i][3] = r}
    IN  IF hits = {} THEN ""
        ELSE Centroid2shRows[CHOOSE i \in hits : \A j \in hits : i >= j][1]

\* the best-hit reference of q, "" when it has none
T_Best(q) == IF q \in DOMAIN q2best THEN q2best[q] ELSE ""

\* the places in the output of the records of (q, t)
RecordsOf(q, t) ==
    {i \in 2..Len(out_rows) : out_rows[i][1] = q /\ out_rows[i][6] = t}

ThresholdSet == {THRESHOLDS[i] : i \in 1..Len(THRESHOLDS)}

\* the loop has written the records of some threshold and no cluster file of
\* that threshold was malformed
Written == pc \in {"loop", "done", "error"} /\ th_i > 1

\* P holds of the record of q at the threshold written last, q's cluster there
\* being the members m of raw cluster c
LastRecordIs(q, P(_, _)) ==
    \A c \in T_ClustersOf(q, LastTh) :
        Cardinality(T_ClustersOf(q, LastTh)) = 1 =>
            /\ RecordsOf(q, LastTh) # {}
            /\ \A i \in RecordsOf(q, LastTh) :
                   P(out_rows[i], T_Members(T_Rows(LastTh), c))

(***************************************************************************)
(* Claims about the Resolver.                                              *)
(***************************************************************************)
\* C1: once the run is over and has not failed the fatal precondition, every
\* Query member of the compound cluster has exactly one record for each of the
\* six thresholds, whatever the cluster files hold.
C1_ExactlyOneRecord ==
    pc \in {"done", "error"} =>
        \A q \in T_Queries : \A t \in ThresholdSet : Cardinality(RecordsOf(q, t)) = 1

\* C2: q has a cluster at t and its best hit B is a reference of that cluster:
\* the record is "present", with the SH of B at code(t) and no extra.
C2_Present(rec, m) ==
    (T_Best(rec[1]) # "" /\ T_Best(rec[1]) \in MemberSet(m) \cap T_Refs) =>
        /\ rec[2] = T_Best(rec[1])
        /\ rec[3] = "present"
        /\ rec[4] = T_Lookup(rec[6], T_Best(rec[1]))
        /\ rec[5] = ""

C2_BestRefPresent == Written => \A q \in T_Queries : LastRecordIs(q, C2_Present)

C2_Witness ==
    /\ Written
    /\ \E i \in 2..Len(out_rows) :
          /\ out_rows[i][6] = LastTh
          /\ out_rows[i][2] \in MemberSet(T_Members(T_Rows(LastTh), "0")) \cap T_Refs
          /\ out_rows[i][1] \in MemberSet(T_Members(T_Rows(LastTh), "0"))
          /\ out_rows[i][3] = "present"
          /\ out_rows[i][4] = "SH2"

\* C3: the cluster holds references but not the best hit B: when B has an SH
\* at code(t) that a reference of the cluster shares, sh_code is that SH, and
\* only otherwise the SH of the smallest reference id of the cluster.
C3_SharedSh(rec, m) ==
    LET B == T_Best(rec[1])
        R == MemberSet(m) \cap T_Refs
        shared == /\ B # ""
                  /\ T_Lookup(rec[6], B) # ""
                  /\ \E r \in R : T_Lookup(rec[6], r) = T_Lookup(rec[6], B)
    IN  (R # {} /\ B \notin R) =>
            IF shared THEN rec[4] = T_Lookup(rec[6], B)
            ELSE rec[4] = T_Lookup(rec[6], Sorted(R)[1])

C3_SharedShFirst == Written => \A q \in T_Queries : LastRecordIs(q, C3_SharedSh)

\* C4: the cluster holds no reference and only known queries: one member
\* gives "singleton" without extra, more give "new cluster"; sh_code is the
\* SH of the best hit at code(t), empty when there is no best hit or no SH.
C4_NoRef(rec, m) ==
    (MemberSet(m) \cap T_Refs = {} /\ MemberSet(m) \subseteq T_Queries) =>
        /\ Len(m) = 1 => rec[3] = "singleton" /\ rec[5] = ""
        /\ Len(m) > 1 => rec[3] = "new cluster"
        /\ rec[4] = (IF T_Best(rec[1]) = "" THEN "" ELSE T_Lookup(rec[6], T_Best(rec[1])))

C4_SingletonOrNewCluster == Written => \A q \in T_Queries : LastRecordIs(q, C4_NoRef)

C4_Witness ==
    /\ Written
    /\ \E i, j \in 2..Len(out_rows) :
          /\ out_rows[i][3] = "singleton" /\ out_rows[i][4] = "SH2"
          /\ out_rows[j][3] = "new cluster" /\ out_rows[j][4] = ""
          /\ out_rows[j][2] = ""

\* C5: a "new cluster" record lists in extra all the members of the query's
\* cluster, blank-separated, in the order of the cluster file; a record of
\* another status has an empty extra.
C5_Extra(rec, m) == rec[3] = "new cluster" => rec[5] = Join(" ", m)

C5_ExtraIsMemberList ==
    /\ Written => \A q \in T_Queries : LastRecordIs(q, C5_Extra)
    /\ \A i \in 2..Len(out_rows) : out_rows[i][3] # "new cluster" => out_rows[i][5] = ""

C5_Witness ==
    /\ pc = "done"
    /\ \E i, j \in 2..Len(out_rows) :
          /\ out_rows[i][1] = "q1" /\ out_rows[i][5] = "q2 q1"
          /\ out_rows[j][1] = "q2" /\ out_rows[j][5] = "q2 q1"
          /\ out_rows[i][6] = out_rows[j][6]

\* C9: no cluster file in the directory, or a first file whose name does not
\* fit mx_cluster_<id>_out_<threshold>: the run ends in the fatal state and no
\* output file exists, not even its header.
T_FirstName == Sorted({n \in DOMAIN clusters_dir : Find(n, "_out_", 1) # 0})[1]

T_NoClusterId ==
    \/ \A n \in DOMAIN clusters_dir : Find(n, "_out_", 1) = 0
    \/ ~StartsWith(T_FirstName, "mx_cluster_")

C9_FatalWritesNothing ==
    /\ (pc # "start" /\ T_NoClusterId) => pc = "fatal"
    /\ pc = "fatal" => ~out_exists /\ out_rows = <<>>

C9_Witness == pc = "fatal" /\ DOMAIN clusters_dir # {} /\ ~out_exists


\* C11: a decimal threshold and its legacy alias have one code, 0.030/03 is
\* 1, 0.020/02 is 2, 0.010/01 is 3, 0.025/025 is 4, 0.015/015 is 5, 0.005/005
\* is 6, the six codes differ, the Aggregator brings both spellings to one
\* key, and every SH the Resolver writes for threshold t is one the
\* centroid->SH rows of code(t) give.
C11_ThresholdCodes ==
    /\ \A k \in DOMAIN TH_ALIAS :
           /\ th_to_code[k] = T_Code(TH_ALIAS[k])
           /\ th_to_code[TH_ALIAS[k]] = T_Code(TH_ALIAS[k])
           /\ NormalizeTh(TH_ALIAS[k]) = k
           /\ NormalizeTh(k) = k
    /\ ThresholdSet = {TH_ALIAS[k] : k \in DOMAIN TH_ALIAS}
    /\ \A t, u \in ThresholdSet : th_to_code[t] = th_to_code[u] => t = u
    /\ \A i \in 2..Len(out_rows) :
           out_rows[i][4] # "" =>
               \E r \in Sids : out_rows[i][4] = T_Lookup(out_rows[i][6], r)

\* a record of threshold 0.015 has the SH that r1 has at code 5, where r1 has
\* another SH at code 1
C11_Witness ==
    /\ Written
    /\ \E i \in 2..Len(out_rows) :
          /\ out_rows[i][6] = "0.015"
          /\ out_rows[i][2] = "r1"
          /\ out_rows[i][4] = "SH3"
          /\ T_Lookup("0.030", "r1") = "SH2"

MaxHitRows == 3
\* rows of any other table
MaxTableRows == 2

\* the target of the row at place i of a best-hit table
TargetName(i) == "t" \o SubSeq("123456789", i, i)

\* <<query, evalue, bits, pident>> of the rows of the best-hit tables
HitScores ==
    { <<"q1", "1", "1", "1">>, <<"q1", "1.0", "2", "1">>, <<"q1", "1", "2", "1">>,
      <<"q1", "1", "1", "2">>, <<"q1", "0", "0", "0">>, <<"q2", "1", "1", "1">> }

\* the row of the scores s at place i
HitRow(s, i) == <<s[1], TargetName(i), s[2], s[3], "0", s[4], "0", "0">>

\* the malformed rows: one cut after the target, one whose bits are no
\* number, one with a ninth field
HitFaults == {<<"cut">>, <<"bits">>, <<"ninth">>}

\* the row of the scores or of the fault c at place i
HitLine(c, i) ==
    IF c \in HitScores THEN HitRow(c, i)
    ELSE IF c = <<"cut">> THEN <<"q1", TargetName(i)>>
    ELSE IF c = <<"bits">> THEN <<"q1", TargetName(i), "1", "x", "0", "1", "0", "0">>
    ELSE <<"q1", TargetName(i), "0", "2", "0", "2", "0", "0", "0">>

HitHeader == <<" Query", "target", "evalue", "bits", "alnlen", "pident", "qcov", "tcov">>

\* the best-hit tables of at most n rows, with and without a header line
HitInputs(n) ==
    LET body == UNION {{[i \in 1..k |-> HitLine(c[i], i)] :
                           c \in [1..k -> HitScores \cup HitFaults]} : k \in 0..n}
    IN  body \cup {<<HitHeader>> \o t : t \in body}

Tables(rowset, n) == UNION {[1..k -> rowset] : k \in 0..n}

ClusterFileRows == {<<"0", "q1">>, <<"1", "r1">>, <<>>, <<"0">>, <<"0", "q2", "x">>}

MemberFileRows ==
    {<<"A", "Query", "q1">>, <<"A", "ref", "r1">>, <<"A", "Ref">>, <<"B", "Query", "q3">>}

CentroidFileRows == {<<"SH1", "1", "r1">>, <<"SH2", "1", "r1">>, <<"SH1", "1">>, <<"SH3", "9", "r1">>}

MapFileRows == {<<"SH1", "taxA">>, <<"SH1", "taxB", "x">>, <<"SH2">>, <<>>}

CompoundFileRows == {<<"1", "UCL1", "ctaxA">>, <<"2", "UCL1", "ctaxB", "x">>, <<"3", "UCL2">>}

\* line 194 of the Resolver: the first line of a matches file
MatchesHeader == <<"query", "best_ref", "status", "sh_code", "extra", "threshold">>

MatchFileRows ==
    { <<"q1", "r1", "present", "SH1", "", "0.030">>,
      <<"q1", "r1", "singleton", "", "", "03">>,
      <<"q2", "r1", "present">>,
      <<"q2", "", "missing", "", "", "0.3">> }

\* the tables of each kind
LoaderInputs ==
    [hits      |-> HitInputs(MaxHitRows),
     clusters  |-> Tables(ClusterFileRows, MaxTableRows),
     members   |-> Tables(MemberFileRows, MaxTableRows),
     centroid  |-> Tables(CentroidFileRows, MaxTableRows),
     map       |-> Tables(MapFileRows, MaxTableRows),
     compounds |-> Tables(CompoundFileRows, MaxTableRows),
     matches   |-> {<<MatchesHeader>> \o t : t \in Tables(MatchFileRows, MaxTableRows)}]

\* the kind of table each loader reads
LoaderKind ==
    [parse_best_hits         |-> "hits",
     agg_parse_best_hits     |-> "hits",
     parse_best_hits_mmseqs  |-> "hits",
     load_clusters           |-> "clusters",
     load_cluster_members    |-> "members",
     load_centroid2sh        |-> "centroid",
     load_map_file           |-> "map",
     load_compounds          |-> "compounds",
     read_matches_aggregated |-> "matches"]

\* what a loader returns on the rows: [err |-> it raised, val |-> its value]
Apply(loader, rows) ==
    CASE loader = "parse_best_hits" ->
            LET r == parse_best_hits(rows)
            IN  [err |-> r.err, val |-> <<r.q2best_ref, r.q2pident>>]
      [] loader = "agg_parse_best_hits" ->
            LET r == agg_parse_best_hits(rows)
            IN  [err |-> r.err, val |-> <<r.q2best_ref, r.q2pident>>]
      [] loader = "parse_best_hits_mmseqs" ->
            LET r == parse_best_hits_mmseqs(rows)
            IN  [err |-> r.err, val |-> <<r.q2best_ref, r.q2pident>>]
      [] loader = "load_clusters" ->
            LET r == load_clusters(rows)
            IN  [err |-> r.err, val |-> r.d]
      [] loader = "load_cluster_members" ->
            [err |-> FALSE, val |-> load_cluster_members(rows, "A")]
      [] loader = "load_centroid2sh" ->
            [err |-> FALSE, val |-> load_centroid2sh(rows)]
      [] loader = "load_map_file" ->
            [err |-> FALSE, val |-> load_map_file(rows, 1, 2)]
      [] loader = "load_compounds" ->
            [err |-> FALSE, val |-> load_compounds(rows)]
      [] loader = "read_matches_aggregated" ->
            LET r == read_matches_aggregated(<<rows>>)
            IN  [err |-> r.err, val |-> <<r.per_th, r.all_queries>>]

LInit ==
    /\ l_kind \in DOMAIN LoaderInputs
    /\ l_rows \in LoaderInputs[l_kind]
    /\ l_pc = "in"
    /\ l_res = <<>>
    /\ RIdle /\ AIdle

\* the call of one loader on the table
Call(loader) ==
    /\ l_pc = "in"
    /\ l_kind = LoaderKind[loader]
    /\ l_pc' = loader
    /\ l_res' = Apply(loader, l_rows)
    /\ UNCHANGED <<l_kind, l_rows, rvars, avars>>

CallParseBestHits == Call("parse_best_hits")
CallAggParseBestHits == Call("agg_parse_best_hits")
CallParseBestHitsMmseqs == Call("parse_best_hits_mmseqs")
CallLoadClusters == Call("load_clusters")
CallLoadClusterMembers == Call("load_cluster_members")
CallLoadCentroid2sh == Call("load_centroid2sh")
CallLoadMapFile == Call("load_map_file")
CallLoadCompounds == Call("load_compounds")
CallReadMatchesAggregated == Call("read_matches_aggregated")

LNext ==
    \/ CallParseBestHits
    \/ CallAggParseBestHits
    \/ CallParseBestHitsMmseqs
    \/ CallLoadClusters
    \/ CallLoadClusterMembers
    \/ CallLoadCentroid2sh
    \/ CallLoadMapFile
    \/ CallLoadCompounds
    \/ CallReadMatchesAggregated

SpecL == LInit /\ [][LNext]_vars

(***************************************************************************)
(* Properties of the loaders.                                              *)
(***************************************************************************)
HitParsers == {"parse_best_hits", "agg_parse_best_hits", "parse_best_hits_mmseqs"}

\* the data rows of the best-hit table read: those after the header line
T_HitData == IF Len(l_rows) > 0 /\ l_rows[1] = HitHeader THEN Tail(l_rows) ELSE l_rows

\* a row of 8 fields whose evalue, bits and pident are numbers
T_WellFormedHit(row) ==
    Len(row) = 8 /\ IsFloat(row[3]) /\ IsFloat(row[4]) /\ IsFloat(row[6])

\* row a ranks before row b: lower evalue, then higher bits, then higher pident
T_Better(a, b) ==
    LET ea == FloatVal[a[3]]  eb == FloatVal[b[3]]
        ba == FloatVal[a[4]]  bb == FloatVal[b[4]]
        pa == FloatVal[a[6]]  pb == FloatVal[b[6]]
    IN  \/ ea < eb
        \/ ea = eb /\ ba > bb
        \/ ea = eb /\ ba = bb /\ pa > pb

\* the places of the rows of query q
T_RowsOf(q) == {i \in 1..Len(T_HitData) : T_HitData[i][1] = q}

\* the place of the earliest row of q that no row of q ranks before
T_BestRow(q) ==
    CHOOSE i \in T_RowsOf(q) :
        /\ \A j \in T_RowsOf(q) : ~T_Better(T_HitData[j], T_HitData[i])
        /\ \A j \in T_RowsOf(q) : j < i => T_Better(T_HitData[i], T_HitData[j])

T_AllWellFormed ==
    /\ l_kind = "hits"
    /\ \A i \in 1..Len(T_HitData) : T_WellFormedHit(T_HitData[i])

\* C6: when every row of a best-hit table is well-formed, each of the three
\* parsers stores for every query of the table the target of the row of that
\* query that is lowest in evalue, then highest in bits, then highest in
\* pident, and the earliest such row when several tie on all three.
C6_BestHitSelection ==
    (l_pc \in HitParsers /\ T_AllWellFormed) =>
        /\ ~l_res.err
        /\ DOMAIN l_res.val[1] = {T_HitData[i][1] : i \in 1..Len(T_HitData)}
        /\ \A q \in DOMAIN l_res.val[1] : l_res.val[1][q] = T_HitData[T_BestRow(q)][2]

\* a parser has read a table in which two rows of q1 tie on all three values,
\* written differently, both rank before the first row, and the earlier of the
\* two is the one kept
C6_Witness ==
    /\ l_pc \in HitParsers /\ T_AllWellFormed
    /\ Len(T_HitData) = 3
    /\ T_HitData[1] = HitRow(<<"q1", "1", "1", "1">>, 1)
    /\ T_HitData[2] = HitRow(<<"q1", "1", "2", "1">>, 2)
    /\ T_HitData[3] = HitRow(<<"q1", "1.0", "2", "1">>, 3)
    /\ l_res.val[1]["q1"] = "t2"

\* a row with too few fields for its table, a best-hit row of another length
\* than 8, or a best-hit row with a score that is no number
T_Malformed(kind, row) ==
    CASE kind = "hits"      -> ~T_WellFormedHit(row)
      [] kind = "clusters"  -> Len(row) < 2
      [] kind = "members"   -> Len(row) < 3
      [] kind = "centroid"  -> Len(row) < 3
      [] kind = "map"       -> Len(row) < 2
      [] kind = "compounds" -> Len(row) < 3
      [] kind = "matches"   -> Len(row) < 6

\* the table without its malformed rows; the header line of a best-hit table
\* and of a matches file stays
RECURSIVE T_Clean(_, _)
T_Clean(kind, rows) ==
    IF Len(rows) = 0 THEN <<>>
    ELSE LET row  == rows[Len(rows)]
             rest == T_Clean(kind, SubSeq(rows, 1, Len(rows) - 1))
         IN  IF row \in {HitHeader, MatchesHeader} THEN Append(rest, row)
             ELSE IF T_Malformed(kind, row) THEN rest
             ELSE Append(rest, row)

\* the matches files whose rows all name one of the six thresholds
T_KnownThresholds ==
    l_kind = "matches" =>
        \A i \in 2..Len(l_rows) :
            Len(l_rows[i]) >= 6 =>
                l_rows[i][6] \in DOMAIN TH_ALIAS \cup {TH_ALIAS[k] : k \in DOMAIN TH_ALIAS}

\* C10: every loader passes over the malformed rows of its table: it raises
\* no error and returns what it returns on the table without those rows.
C10_MalformedRowsSkipped ==
    (l_pc \notin {"in", "idle"} /\ T_KnownThresholds) =>
        /\ ~l_res.err
        /\ l_res = Apply(l_pc, T_Clean(l_kind, l_rows))


(***************************************************************************)
(* The Aggregator run.                                                     *)
(***************************************************************************)
\* lines of all the matches files together, the first header line not counted
MaxRecs == 3

\* the lines of the matches files: status records of q1 and q2, a line cut
\* after the status, a line with a threshold outside the six
StatusLines ==
    { <<"q1", "r1_SH2", "present", "SH1", "", "0.030">>,
      <<"q1", "r1_SH2", "present", "", "", "0.025">>,
      <<"q1", "r1_SH2", "new cluster", "UCL2", "q1 q2", "025">>,
      <<"q1", "r1_SH2", "singleton", "SH1", "", "0.005">>,
      <<"q1", "r1_SH2", "missing", "", "", "0.030">>,
      <<"q2", "r2_X_SH1", "present", "UCL1", "", "0.030">>,
      <<"q2", "", "singleton", "", "", "0.025">>,
      <<"q2", "r2", "new cluster", "SH3", "q2 q3", "0.020">>,
      <<"q2", "r2", "present">>,
      <<"q2", "", "missing", "", "", "0.3">> }

\* the files of a stream of lines: every header line opens a file
RECURSIVE SplitFiles(_)
SplitFiles(lines) ==
    IF Len(lines) = 0 THEN <<>>
    ELSE LET l    == lines[Len(lines)]
             rest == SplitFiles(SubSeq(lines, 1, Len(lines) - 1))
         IN  IF l = MatchesHeader \/ Len(rest) = 0
             THEN Append(rest, <<l>>)
             ELSE [rest EXCEPT ![Len(rest)] = Append(@, l)]

\* the lists of matches files with at most n lines after the first header
AggInputs(n) ==
    {SplitFiles(<<MatchesHeader>> \o t) : t \in Tables(StatusLines \cup {MatchesHeader}, n)}

\* the best-hit table and the three taxonomy tables of the run
AggHitRows == << <<"q1", "r1_SH2", "1", "2", "0", "2", "0", "0">> >>
AggShsRows == << <<"SH1", "taxA">>, <<"SH2", "taxB">>, <<"SH9">> >>
AggSh2CompoundRows == << <<"SH1", "UCL1">>, <<"SH2", "UCL2">> >>
AggCompoundsRows == << <<"1", "UCL1", "ctaxA">>, <<"2", "UCL2", "ctaxB">>, <<"3", "UCL3">> >>

AInit ==
    /\ agg_files \in AggInputs(MaxRecs)
    /\ apc = "start"
    /\ per_th = EmptyMap
    /\ all_queries = <<>>
    /\ agg_q2best = EmptyMap
    /\ agg_q2pident = EmptyMap
    /\ sh2tax = EmptyMap
    /\ sh2ucl = EmptyMap
    /\ ucl2tax = EmptyMap
    /\ out_lines = <<>>
    /\ q_i = 1
    /\ t_i = 1
    /\ row_out = <<>>
    /\ compound_ucl = ""
    /\ compound_tax = ""
    /\ RIdle /\ LIdle

\* lines 137-210: the tables are read and the header is written; a KeyError of
\* read_matches_aggregated ends the run before the output is opened
ReadInputs ==
    /\ apc = "start"
    /\ LET r == read_matches_aggregated(agg_files)
           h == agg_parse_best_hits(AggHitRows)
       IN  IF r.err
           THEN /\ apc' = "error"
                /\ UNCHANGED <<per_th, all_queries, agg_q2best, agg_q2pident,
                               sh2tax, sh2ucl, ucl2tax, out_lines>>
           ELSE /\ per_th' = r.per_th
                /\ all_queries' = r.all_queries
                /\ agg_q2best' = h.q2best_ref
                /\ agg_q2pident' = h.q2pident
                /\ sh2tax' = load_map_file(AggShsRows, 1, 2)
                /\ sh2ucl' = load_map_file(AggSh2CompoundRows, 1, 2)
                /\ ucl2tax' = load_compounds(AggCompoundsRows)
                /\ out_lines' = <<OutLine(AggHeader)>>
                /\ apc' = IF Len(r.all_queries) = 0 THEN "done" ELSE "query"
    /\ UNCHANGED <<agg_files, q_i, t_i, row_out, compound_ucl, compound_tax>>
    /\ UNCHANGED <<rvars, lvars>>

\* lines 212-219: the pass of the next query begins
BeginQuery ==
    /\ apc = "query"
    /\ row_out' = <<all_queries[q_i], all_queries[q_i]>>
    /\ compound_ucl' = ""
    /\ compound_tax' = ""
    /\ t_i' = 1
    /\ apc' = "scan"
    /\ UNCHANGED <<agg_files, per_th, all_queries, agg_q2best, agg_q2pident,
                   sh2tax, sh2ucl, ucl2tax, out_lines, q_i>>
    /\ UNCHANGED <<rvars, lvars>>

\* lines 221-265: one threshold of the scan
ScanThreshold ==
    /\ apc = "scan"
    /\ t_i <= Len(AGG_THRESHOLDS)
    /\ LET m  == Get(per_th[AGG_THRESHOLDS[t_i]], all_queries[q_i], <<>>)
           st == ScanStep(m, compound_ucl, compound_tax, sh2tax, sh2ucl, ucl2tax)
       IN  /\ row_out' = extend_row(row_out, st)
           /\ compound_ucl' = st.compound_ucl
           /\ compound_tax' = st.compound_tax
    /\ t_i' = t_i + 1
    /\ UNCHANGED <<agg_files, apc, per_th, all_queries, agg_q2best, agg_q2pident,
                   sh2tax, sh2ucl, ucl2tax, out_lines, q_i>>
    /\ UNCHANGED <<rvars, lvars>>

\* lines 267-274: the compound and best-hit columns, and the line is written
EndQuery ==
    /\ apc = "scan"
    /\ t_i > Len(AGG_THRESHOLDS)
    /\ LET q           == all_queries[q_i]
           matched_seq == Get(agg_q2best, q, "")
           pident      == IF q \in DOMAIN agg_q2pident THEN FloatStr[agg_q2pident[q]] ELSE ""
       IN  /\ row_out' = row_out \o <<compound_ucl, compound_tax, matched_seq, pident>>
           /\ out_lines' = Append(out_lines, OutLine(row_out'))
    /\ q_i' = q_i + 1
    /\ apc' = IF q_i < Len(all_queries) THEN "query" ELSE "done"
    /\ UNCHANGED <<agg_files, per_th, all_queries, agg_q2best, agg_q2pident,
                   sh2tax, sh2ucl, ucl2tax, t_i, compound_ucl, compound_tax>>
    /\ UNCHANGED <<rvars, lvars>>

ANext == ReadInputs \/ BeginQuery \/ ScanThreshold \/ EndQuery

SpecA == AInit /\ [][ANext]_vars

(***************************************************************************)
(* Properties of the Aggregator.                                           *)
(***************************************************************************)
\* the fields of a line from place `from` on, for the places `tabs` of its tabs
RECURSIVE FieldsFrom(_, _, _)
FieldsFrom(line, tabs, from) ==
    LET later == {i \in tabs : i >= from}
    IN  IF later = {} THEN <<SubSeq(line, from, Len(line))>>
        ELSE LET i == CHOOSE x \in later : \A y \in later : x <= y
             IN  <<SubSeq(line, from, i - 1)>> \o FieldsFrom(line, tabs, i + 1)

\* the tab-separated fields of a line
Fields(line) ==
    FieldsFrom(line, {i \in 1..Len(line) : SubSeq(line, i, i) = "\t"}, 1)

\* the status records of the files: the lines of six fields and more after
\* the first line of each file
T_Records ==
    LET rows == MatchRows(agg_files)
    IN  {rows[i] : i \in {j \in 1..Len(rows) : Len(rows[j]) >= 6}}

T_AggQueries == {r[1] : r \in T_Records}

\* the legacy key of a threshold written either way
T_Key(th) ==
    IF th \in DOMAIN TH_ALIAS THEN th
    ELSE CHOOSE k \in DOMAIN TH_ALIAS : TH_ALIAS[k] = th

\* the compound a record yields: <<code, taxonomy>>, <<"", "">> when none
T_Yield(m) ==
    IF Len(m) = 0 THEN <<"", "">>
    ELSE IF m[3] = "present"
    THEN LET sh == IF StartsWith(m[4], "SH") THEN m[4] ELSE extract_sh_code_from_target(m[2])
         IN  IF sh \in DOMAIN sh2ucl /\ sh2ucl[sh] # ""
             THEN <<sh2ucl[sh], Get(ucl2tax, sh2ucl[sh], "")>>
             ELSE <<"", "">>
    ELSE IF m[3] \in {"new cluster", "singleton"}
    THEN LET ucl == IF StartsWith(m[4], "UCL") THEN m[4] ELSE Get(sh2ucl, m[4], "")
         IN  IF ucl # "" THEN <<ucl, Get(ucl2tax, ucl, "")>> ELSE <<"", "">>
    ELSE <<"", "">>

\* the record of query q at the threshold at place t of the scan
T_RecordAt(q, t) == Get(per_th[AGG_THRESHOLDS[t]], q, <<>>)

\* the compound of the first of the thresholds 1..n of the scan whose record
\* yields one
T_FirstCompound(q, n) ==
    LET ts == {t \in 1..n : T_Yield(T_RecordAt(q, t))[1] # ""}
    IN  IF ts = {} THEN <<"", "">>
        ELSE T_Yield(T_RecordAt(q, CHOOSE t \in ts : \A u \in ts : t <= u))

\* while a query is scanned the compound columns are those of the first
\* threshold scanned so far that yielded a compound
C7_FirstYield ==
    apc = "scan" => <<compound_ucl, compound_tax>> = T_FirstCompound(all_queries[q_i], t_i - 1)

\* the compound columns of the lines written are those of the first threshold
\* of the whole scan that yielded a compound
C7_Written ==
    apc = "done" =>
        \A k \in 2..Len(out_lines) :
            LET f == Fields(out_lines[k])
            IN  <<f[21], f[22]>> = T_FirstCompound(f[1], Len(AGG_THRESHOLDS))

\* C7: during the scan of a query's thresholds in the order 3.0, 2.5, 2.0,
\* 1.5, 1.0, 0.5, a compound code that is set is changed by no later step, nor
\* is the compound taxonomy; the compound columns are those of the first
\* threshold in that order that yielded a compound code.
C7_CompoundFirstWins ==
    /\ [][(apc = "scan" /\ compound_ucl # "") =>
            (compound_ucl' = compound_ucl /\ compound_tax' = compound_tax)]_vars
    /\ [](C7_FirstYield /\ C7_Written)

\* the threshold scanned last yields a compound other than the one set by an
\* earlier threshold
C7_Witness ==
    /\ apc = "scan" /\ t_i > 2
    /\ T_FirstCompound(all_queries[q_i], t_i - 2)[1] # ""
    /\ T_Yield(T_RecordAt(all_queries[q_i], t_i - 1))[1]
           \notin {"", T_FirstCompound(all_queries[q_i], t_i - 2)[1]}
    /\ compound_ucl = T_FirstCompound(all_queries[q_i], t_i - 2)[1]

\* the records of query q for the threshold at place t of the scan
T_RecordsFor(q, t) ==
    {r \in T_Records : r[1] = q /\ T_Key(r[6]) = AGG_THRESHOLDS[t]}

\* C8: when the Aggregator has run, every query of a status record has one
\* line of the output, every line has 24 fields, the first line the header,
\* and a threshold for which a query has no record, or only records with the
\* status "missing", has three empty fields in the line of the query.
C8_OutputSchema ==
    apc = "done" =>
        /\ Fields(out_lines[1]) = AggHeader
        /\ Len(out_lines) = 1 + Cardinality(T_AggQueries)
        /\ {Fields(out_lines[k])[1] : k \in 2..Len(out_lines)} = T_AggQueries
        /\ \A k \in 1..Len(out_lines) :
               LET f == Fields(out_lines[k])
               IN  /\ Len(f) = 24
                   /\ \A t \in 1..Len(AGG_THRESHOLDS) :
                          (k > 1 /\ \A r \in T_RecordsFor(f[1], t) : r[3] = "missing") =>
                              /\ f[3 * t] = ""
                              /\ f[3 * t + 1] = ""
                              /\ f[3 * t + 2] = ""

\* two queries have their lines; one has a record with the status "missing"
\* as its only record of a threshold and a record of another status at
\* another threshold
C8_Witness ==
    /\ apc = "done"
    /\ Len(out_lines) = 3
    /\ \E r \in T_Records :
           /\ r[3] = "missing"
           /\ \A r2 \in T_Records : (r2[1] = r[1] /\ T_Key(r2[6]) = T_Key(r[6])) => r2 = r
           /\ \E r3 \in T_Records : r3[1] = r[1] /\ r3[3] = "present"


\* the value of key k in the rows of a two-column table, "" when absent
T_TableValue(rows, kcol, vcol, min, k) ==
    LET hits == {i \in 1..Len(rows) : Len(rows[i]) >= min /\ rows[i][kcol] = k}
    IN  IF hits = {} THEN ""
        ELSE rows[CHOOSE i \in hits : \A j \in hits : i >= j][vcol]

T_ShTax(sh) == T_TableValue(AggShsRows, 1, 2, 2, sh)
T_ShCompound(sh) == T_TableValue(AggSh2CompoundRows, 1, 2, 2, sh)
T_CompoundTax(ucl) == T_TableValue(AggCompoundsRows, 2, 3, 3, ucl)

\* the part of a reference id after its first underscore, "" without one
T_AfterFirstUnderscore(id) ==
    LET us == {i \in 1..Len(id) : SubSeq(id, i, i) = "_"}
    IN  IF us = {} THEN ""
        ELSE SubSeq(id, (CHOOSE i \in us : \A j \in us : i <= j) + 1, Len(id))

\* the query of the pass and the threshold scanned last
T_Query == all_queries[q_i]
T_Scanned == apc = "scan" /\ t_i > 1
T_LastRecord == T_RecordAt(T_Query, t_i - 1)
T_LastColumns == SubSeq(row_out, 3 * (t_i - 1), 3 * (t_i - 1) + 2)

\* C13: for a "present" record the SH-code column of its threshold is the
\* sh_code field when the field starts with "SH", else the part of the
\* best-hit reference id after the first underscore when that part starts
\* with "SH", else empty; the taxonomy column is the SH taxonomy of that code,
\* empty when the table has none.
C13_PresentShColumn ==
    (T_Scanned /\ Len(T_LastRecord) > 0 /\ T_LastRecord[3] = "present") =>
        LET m    == T_LastRecord
            part == T_AfterFirstUnderscore(m[2])
            sh   == IF StartsWith(m[4], "SH") THEN m[4]
                    ELSE IF StartsWith(part, "SH") THEN part
                    ELSE ""
        IN  /\ T_LastColumns[2] = sh
            /\ T_LastColumns[3] = T_ShTax(sh)

\* a "present" record without an sh_code has got the SH of its best-hit id
\* and the taxonomy of that SH
C13_Witness ==
    /\ T_Scanned
    /\ T_LastRecord = <<"q1", "r1_SH2", "present", "", "", "0.025">>
    /\ T_LastColumns = <<"present_in", "SH2", "taxB">>

\* the compound code of the sh_code field of a "new cluster" or "singleton"
\* record
T_Ucl(m) == IF StartsWith(m[4], "UCL") THEN m[4] ELSE T_ShCompound(m[4])

\* C14: for a "new cluster" or "singleton" record the sh_code field gives a
\* compound code, itself when it starts with "UCL", else its SH->compound
\* lookup, empty when absent; the taxonomy column of the threshold is the
\* compound taxonomy of that code and the SH-code column is empty; the
\* compound columns take the code and its taxonomy only when the code is not
\* empty and the columns were not set before.  (No compound of the tables has
\* an empty code.)
C14_NewClusterCompound ==
    [][(/\ apc = "scan" /\ t_i <= Len(AGG_THRESHOLDS)
        /\ Len(T_RecordAt(T_Query, t_i)) > 0
        /\ T_RecordAt(T_Query, t_i)[3] \in {"new cluster", "singleton"}) =>
           LET ucl == T_Ucl(T_RecordAt(T_Query, t_i))
               tax == T_CompoundTax(ucl)
           IN  /\ Len(row_out') = Len(row_out) + 3
               /\ row_out'[3 * t_i + 1] = ""
               /\ row_out'[3 * t_i + 2] = tax
               /\ IF compound_ucl = "" /\ ucl # ""
                  THEN compound_ucl' = ucl /\ compound_tax' = tax
                  ELSE compound_ucl' = compound_ucl /\ compound_tax' = compound_tax
      ]_vars

\* a "singleton" record with an SH in its sh_code field has set the compound
\* columns to the compound of that SH, no earlier threshold having set them
C14_Witness ==
    /\ T_Scanned
    /\ T_LastRecord = <<"q1", "r1_SH2", "singleton", "SH1", "", "0.005">>
    /\ T_LastColumns = <<"new_singleton_in", "", "ctaxA">>
    /\ T_FirstCompound(T_Query, t_i - 2)[1] = ""
    /\ compound_ucl = "UCL1" /\ compound_tax = "ctaxA"

\* the rows of six fields and more of all the files, in reading order
T_RecordSeq ==
    LET rows == MatchRows(agg_files)
        RECURSIVE Keep(_)
        Keep(i) == IF i > Len(rows) THEN <<>>
                   ELSE IF Len(rows[i]) >= 6 THEN <<rows[i]>> \o Keep(i + 1)
                   ELSE Keep(i + 1)
    IN  Keep(1)

\* the last record read for query q and the threshold at place t, <<>> when
\* there is none
T_LastRead(q, t) ==
    LET rs   == T_RecordSeq
        hits == {i \in 1..Len(rs) : rs[i][1] = q /\ T_Key(rs[i][6]) = AGG_THRESHOLDS[t]}
    IN  IF hits = {} THEN <<>> ELSE rs[CHOOSE i \in hits : \A j \in hits : i >= j]

\* the status column of a record
T_StatusColumn(m) ==
    IF Len(m) = 0 THEN ""
    ELSE CASE m[3] = "present"     -> "present_in"
           [] m[3] = "new cluster" -> "new_sh_in"
           [] m[3] = "singleton"   -> "new_singleton_in"
           [] OTHER                -> ""

\* C15: of several records of one query and threshold, in one file or in
\* several, the one read last is the record of that threshold, the records of
\* the other thresholds of the query are the last read for them, and the
\* query has one line of the output.
C15_LastRecordWins ==
    /\ apc \in {"query", "done"} =>
           \A q \in T_AggQueries : \A t \in 1..Len(AGG_THRESHOLDS) :
               T_RecordAt(q, t) = T_LastRead(q, t)
    /\ T_Scanned => T_LastColumns[1] = T_StatusColumn(T_LastRead(T_Query, t_i - 1))
    /\ apc = "done" =>
           \A q \in T_AggQueries :
               Cardinality({k \in 2..Len(out_lines) : StartsWith(out_lines[k], q \o "\t")}) = 1

\* two files each hold a record of q1 at threshold 3.0, of different status,
\* the run is over and the record of the second file is the one kept
C15_Witness ==
    /\ apc = "done"
    /\ Len(agg_files) = 2
    /\ Len(agg_files[1]) = 2 /\ Len(agg_files[2]) = 2
    /\ agg_files[1][2] = <<"q1", "r1_SH2", "present", "SH1", "", "0.030">>
    /\ agg_files[2][2] = <<"q1", "r1_SH2", "missing", "", "", "0.030">>
    /\ per_th["03"]["q1"] = agg_files[2][2]
    /\ Len(out_lines) = 2

====
